---- MODULE Spec2Model ----
(***************************************************************************)
(* Model of the fungible-token contract examples/token_contract.rs.        *)
(*                                                                         *)
(* The contract keeps three storage mappers (balance, totalSupply, owner)  *)
(* and emits three kinds of events.  Every endpoint runs inside one host   *)
(* transaction: a failed require! (or a failed BigUint subtraction, which  *)
(* the framework turns into a signalled error) stops the execution and the *)
(* host discards the storage writes and events of the call.                *)
(***************************************************************************)
EXTENDS Integers, Sequences, FiniteSets, TLC

\* ---------------------------------------------------------------- bounds
\* largest amount passed as an argument
MaxAmount == 1
\* calls that would push a stored BigUint above this value are not explored
MaxBalance == 2
\* calls that would make the event log longer than this are not explored
MaxLog == 1

\* ------------------------------------------------------------ value sets
ZeroPrincipal == "zero"
Callers == {"alice", "bob"}
Principal == Callers \cup {ZeroPrincipal}
Amount == 0 .. MaxAmount

\* placeholder for the address argument of endpoints that take none
NoAddress == "-"
\* what a call without a return value returns
Void == "void"

\* abort reasons
OK == "ok"
ErrTransferZero == "Cannot transfer to zero address"
ErrMintZero == "Cannot mint to zero address"
ErrAmount == "Amount must be positive"
ErrBalance == "Insufficient balance"
ErrOwner == "Only owner can call this function"
ErrSubNegative == "cannot subtract because result would be negative"

VARIABLES balance, totalSupply, owner, log, last

vars == <<balance, totalSupply, owner, log, last>>

\* ------------------------------------------------- storage and execution
\* the storage and event log as seen by a running call
Storage == [balance |-> balance, totalSupply |-> totalSupply, log |-> log, err |-> OK]

\* require!(cond, msg): the first failing check stops the call
Require(st, cond, msg) ==
    IF st.err = OK /\ ~cond THEN [st EXCEPT !.err = msg] ELSE st

\* BigUint subtraction: a negative result is a signalled error
BigUintSub(st, a, b) == Require(st, a >= b, ErrSubNegative)

\* self.balance(&address).set(&value)
SetBalance(st, address, value) ==
    IF st.err = OK THEN [st EXCEPT !.balance[address] = value] ELSE st

\* self.total_supply().set(&value)
SetTotalSupply(st, value) ==
    IF st.err = OK THEN [st EXCEPT !.totalSupply = value] ELSE st

\* variant: an event call overwrites the log with its record
Emit_replaces(st, event) ==
    IF st.err = OK THEN [st EXCEPT !.log = <<event>>] ELSE st

\* an event call appends one record to the log of the transaction
Emit(st, event) ==
    IF st.err = OK THEN [st EXCEPT !.log = Append(st.log, event)] ELSE st

transfer_event(from, to, amount) ==
    [kind |-> "transfer", from |-> from, to |-> to, amount |-> amount]

mint_event(to, amount) ==
    [kind |-> "mint", to |-> to, amount |-> amount]

burn_event(from, amount) ==
    [kind |-> "burn", from |-> from, amount |-> amount]

\* variant: the owner check lets every caller through
require_owner_skipped(st, caller) == st

\* require_owner: caller == owner
require_owner(st, caller) == Require(st, caller = owner, ErrOwner)

\* ------------------------------------------------------------- endpoints
\* variant: the initial supply is added to the caller's stored balance
init_adds(st, caller, initial_supply) ==
    LET s1 == SetBalance(st, caller, st.balance[caller] + initial_supply)
        s2 == SetTotalSupply(s1, initial_supply)
    IN  s2

init(st, caller, initial_supply) ==
    LET s1 == SetBalance(st, caller, initial_supply)
        s2 == SetTotalSupply(s1, initial_supply)
    IN  s2

\* variant: the balance check is left out
transfer_unchecked_balance(st, caller, to, amount) ==
    LET s1 == Require(st, to # ZeroPrincipal, ErrTransferZero)
        s2 == Require(s1, amount > 0, ErrAmount)
        caller_balance == s2.balance[caller]
        s4 == BigUintSub(s2, caller_balance, amount)
        s5 == SetBalance(s4, caller, caller_balance - amount)
        s6 == SetBalance(s5, to, s5.balance[to] + amount)
        s7 == Emit(s6, transfer_event(caller, to, amount))
    IN  s7

\* variant: the recipient's balance is set to the amount, not increased by it
transfer_overwrite_credit(st, caller, to, amount) ==
    LET s1 == Require(st, to # ZeroPrincipal, ErrTransferZero)
        s2 == Require(s1, amount > 0, ErrAmount)
        caller_balance == s2.balance[caller]
        s3 == Require(s2, caller_balance >= amount, ErrBalance)
        s4 == BigUintSub(s3, caller_balance, amount)
        s5 == SetBalance(s4, caller, caller_balance - amount)
        s6 == SetBalance(s5, to, amount)
        s7 == Emit(s6, transfer_event(caller, to, amount))
    IN  s7

\* variant: the amount is checked before the recipient
transfer_amount_first(st, caller, to, amount) ==
    LET s1 == Require(st, amount > 0, ErrAmount)
        s2 == Require(s1, to # ZeroPrincipal, ErrTransferZero)
        caller_balance == s2.balance[caller]
        s3 == Require(s2, caller_balance >= amount, ErrBalance)
        s4 == BigUintSub(s3, caller_balance, amount)
        s5 == SetBalance(s4, caller, caller_balance - amount)
        s6 == SetBalance(s5, to, s5.balance[to] + amount)
        s7 == Emit(s6, transfer_event(caller, to, amount))
    IN  s7

\* variant: the credit uses the recipient's balance as it was before the debit
transfer_stale_credit(st, caller, to, amount) ==
    LET s1 == Require(st, to # ZeroPrincipal, ErrTransferZero)
        s2 == Require(s1, amount > 0, ErrAmount)
        caller_balance == s2.balance[caller]
        s3 == Require(s2, caller_balance >= amount, ErrBalance)
        s4 == BigUintSub(s3, caller_balance, amount)
        s5 == SetBalance(s4, caller, caller_balance - amount)
        s6 == SetBalance(s5, to, st.balance[to] + amount)
        s7 == Emit(s6, transfer_event(caller, to, amount))
    IN  s7

\* variant: the recipient is debited and the caller credited
transfer_swapped(st, caller, to, amount) ==
    LET s1 == Require(st, to # ZeroPrincipal, ErrTransferZero)
        s2 == Require(s1, amount > 0, ErrAmount)
        caller_balance == s2.balance[caller]
        s3 == Require(s2, caller_balance >= amount, ErrBalance)
        s4 == BigUintSub(s3, s3.balance[to], amount)
        s5 == SetBalance(s4, to, s4.balance[to] - amount)
        s6 == SetBalance(s5, caller, s5.balance[caller] + amount)
        s7 == Emit(s6, transfer_event(caller, to, amount))
    IN  s7

\* variant: the caller is not debited
transfer_no_debit(st, caller, to, amount) ==
    LET s1 == Require(st, to # ZeroPrincipal, ErrTransferZero)
        s2 == Require(s1, amount > 0, ErrAmount)
        caller_balance == s2.balance[caller]
        s3 == Require(s2, caller_balance >= amount, ErrBalance)
        s6 == SetBalance(s3, to, s3.balance[to] + amount)
        s7 == Emit(s6, transfer_event(caller, to, amount))
    IN  s7

transfer(st, caller, to, amount) ==
    LET s1 == Require(st, to # ZeroPrincipal, ErrTransferZero)
        s2 == Require(s1, amount > 0, ErrAmount)
        caller_balance == s2.balance[caller]
        s3 == Require(s2, caller_balance >= amount, ErrBalance)
        s4 == BigUintSub(s3, caller_balance, amount)
        s5 == SetBalance(s4, caller, caller_balance - amount)
        s6 == SetBalance(s5, to, s5.balance[to] + amount)
        s7 == Emit(s6, transfer_event(caller, to, amount))
    IN  s7

\* variant: the recipient is checked before the owner
mint_recipient_first(st, caller, to, amount) ==
    LET s1 == Require(st, to # ZeroPrincipal, ErrMintZero)
        s2 == require_owner(s1, caller)
        s3 == Require(s2, amount > 0, ErrAmount)
        s4 == SetBalance(s3, to, s3.balance[to] + amount)
        s5 == SetTotalSupply(s4, s4.totalSupply + amount)
        s6 == Emit(s5, mint_event(to, amount))
    IN  s6

\* variant: the total supply is not updated
mint_supply_not_updated(st, caller, to, amount) ==
    LET s1 == require_owner(st, caller)
        s2 == Require(s1, to # ZeroPrincipal, ErrMintZero)
        s3 == Require(s2, amount > 0, ErrAmount)
        s4 == SetBalance(s3, to, s3.balance[to] + amount)
        s6 == Emit(s4, mint_event(to, amount))
    IN  s6

mint(st, caller, to, amount) ==
    LET s1 == require_owner(st, caller)
        s2 == Require(s1, to # ZeroPrincipal, ErrMintZero)
        s3 == Require(s2, amount > 0, ErrAmount)
        s4 == SetBalance(s3, to, s3.balance[to] + amount)
        s5 == SetTotalSupply(s4, s4.totalSupply + amount)
        s6 == Emit(s5, mint_event(to, amount))
    IN  s6

\* variant: the balance check is strict, the whole balance cannot be burnt
burn_strict(st, caller, amount) ==
    LET s1 == Require(st, amount > 0, ErrAmount)
        caller_balance == s1.balance[caller]
        s2 == Require(s1, caller_balance > amount, ErrBalance)
        s3 == BigUintSub(s2, caller_balance, amount)
        s4 == SetBalance(s3, caller, caller_balance - amount)
        s5 == BigUintSub(s4, s4.totalSupply, amount)
        s6 == SetTotalSupply(s5, s4.totalSupply - amount)
        s7 == Emit(s6, burn_event(caller, amount))
    IN  s7

\* variant: the total supply is not updated
burn_supply_not_updated(st, caller, amount) ==
    LET s1 == Require(st, amount > 0, ErrAmount)
        caller_balance == s1.balance[caller]
        s2 == Require(s1, caller_balance >= amount, ErrBalance)
        s3 == BigUintSub(s2, caller_balance, amount)
        s4 == SetBalance(s3, caller, caller_balance - amount)
        s7 == Emit(s4, burn_event(caller, amount))
    IN  s7

\* variant: the supply is decremented in unchecked signed arithmetic
burn_unchecked_supply(st, caller, amount) ==
    LET s1 == Require(st, amount > 0, ErrAmount)
        caller_balance == s1.balance[caller]
        s2 == Require(s1, caller_balance >= amount, ErrBalance)
        s3 == BigUintSub(s2, caller_balance, amount)
        s4 == SetBalance(s3, caller, caller_balance - amount)
        s6 == SetTotalSupply(s4, s4.totalSupply - amount)
        s7 == Emit(s6, burn_event(caller, amount))
    IN  s7

burn(st, caller, amount) ==
    LET s1 == Require(st, amount > 0, ErrAmount)
        caller_balance == s1.balance[caller]
        s2 == Require(s1, caller_balance >= amount, ErrBalance)
        s3 == BigUintSub(s2, caller_balance, amount)
        s4 == SetBalance(s3, caller, caller_balance - amount)
        s5 == BigUintSub(s4, s4.totalSupply, amount)
        s6 == SetTotalSupply(s5, s4.totalSupply - amount)
        s7 == Emit(s6, burn_event(caller, amount))
    IN  s7

\* views
\* variant: the view reads the total supply slot
get_balance_reads_supply(st, address) == st.totalSupply

get_balance(st, address) == st.balance[address]

get_total_supply(st) == st.totalSupply

\* ------------------------------------------------------ host transaction
\* variant: the writes made before an abort are kept
CommitStaged(st) == st

\* what the host keeps of a finished call: everything, or nothing
Commit(st) == IF st.err = OK THEN st ELSE [Storage EXCEPT !.err = st.err]

\* only calls whose outcome stays inside the explored bounds are taken
WithinBounds(st) ==
    /\ \A p \in Principal : st.balance[p] <= MaxBalance
    /\ st.totalSupply <= MaxBalance
    /\ Len(st.log) <= MaxLog

\* variant: init records its caller in the owner slot
Execute_init_sets_owner(op, caller, to, amount, st, ret) ==
    LET res == Commit(st)
    IN  /\ balance' = res.balance
        /\ totalSupply' = res.totalSupply
        /\ log' = res.log
        /\ last' = [op |-> op, caller |-> caller, to |-> to,
                    amount |-> amount, err |-> res.err, ret |-> ret]
        /\ owner' = IF op = "init" THEN caller ELSE owner

\* one call executed by the host: its committed storage and events, and
\* what the caller gets back; no endpoint writes the owner slot
Execute(op, caller, to, amount, st, ret) ==
    LET res == Commit(st)
    IN  /\ balance' = res.balance
        /\ totalSupply' = res.totalSupply
        /\ log' = res.log
        /\ last' = [op |-> op, caller |-> caller, to |-> to,
                    amount |-> amount, err |-> res.err, ret |-> ret]
        /\ UNCHANGED owner

Call(op, caller, to, amount, st, ret) ==
    /\ WithinBounds(Commit(st))
    /\ Execute(op, caller, to, amount, st, ret)

\* ---------------------------------------------------------------- actions
\* The owner slot is written outside the contract, before any call; the
\* principals are interchangeable, so one deployment is explored.
Init ==
    /\ balance = [p \in Principal |-> 0]
    /\ totalSupply = 0
    /\ owner = "alice"
    /\ log = <<>>
    /\ last = [op |-> "deploy", caller |-> owner, to |-> NoAddress,
               amount |-> 0, err |-> OK, ret |-> Void]

InitCall ==
    \E caller \in Callers, initial_supply \in Amount :
        Call("init", caller, NoAddress, initial_supply,
             init(Storage, caller, initial_supply), Void)

TransferCall ==
    \E caller \in Callers, to \in Principal, amount \in Amount :
        Call("transfer", caller, to, amount,
             transfer(Storage, caller, to, amount), Void)

MintCall ==
    \E caller \in Callers, to \in Principal, amount \in Amount :
        Call("mint", caller, to, amount,
             mint(Storage, caller, to, amount), Void)

BurnCall ==
    \E caller \in Callers, amount \in Amount :
        Call("burn", caller, NoAddress, amount,
             burn(Storage, caller, amount), Void)

GetBalanceCall ==
    \E caller \in Callers, address \in Principal :
        Call("getBalance", caller, address, 0,
             Storage, get_balance(Storage, address))

GetTotalSupplyCall ==
    \E caller \in Callers :
        Call("getTotalSupply", caller, NoAddress, 0,
             Storage, get_total_supply(Storage))

Next ==
    \/ InitCall
    \/ TransferCall
    \/ MintCall
    \/ BurnCall
    \/ GetBalanceCall
    \/ GetTotalSupplyCall

Spec == Init /\ [][Next]_vars

\* The contract used as its #[init] annotation intends: init is the first
\* call and runs once, every other call comes after it.
InitOnceNext ==
    \/ /\ last.op = "deploy"
       /\ InitCall
    \/ /\ last.op # "deploy"
       /\ TransferCall
    \/ /\ last.op # "deploy"
       /\ MintCall
    \/ /\ last.op # "deploy"
       /\ BurnCall
    \/ /\ last.op # "deploy"
       /\ GetBalanceCall
    \/ /\ last.op # "deploy"
       /\ GetTotalSupplyCall

SpecInitOnce == Init /\ [][InitOnceNext]_vars

\* ------------------------------------------------- the basic lifecycle
\* init(1000) by alice, transfer(bob, 300) by alice, mint(carol, 50) by the
\* owner dave, then burn(300) or burn(100) by bob; the position in the
\* sequence is the number of events emitted so far.  Reads may be made by
\* anybody at any position.
LifecycleCallers == {"alice", "bob", "carol", "dave"}
LifecyclePrincipal == LifecycleCallers \cup {ZeroPrincipal}

LifecycleInit ==
    /\ balance = [p \in LifecyclePrincipal |-> 0]
    /\ totalSupply = 0
    /\ owner = "dave"
    /\ log = <<>>
    /\ last = [op |-> "deploy", caller |-> owner, to |-> NoAddress,
               amount |-> 0, err |-> OK, ret |-> Void]

LifecycleInitCall ==
    /\ last.op = "deploy"
    /\ Execute("init", "alice", NoAddress, 1000,
               init(Storage, "alice", 1000), Void)

LifecycleTransferCall ==
    /\ last.op # "deploy" /\ Len(log) = 0
    /\ Execute("transfer", "alice", "bob", 300,
               transfer(Storage, "alice", "bob", 300), Void)

LifecycleMintCall ==
    /\ Len(log) = 1
    /\ Execute("mint", "dave", "carol", 50,
               mint(Storage, "dave", "carol", 50), Void)

LifecycleBurnCall ==
    /\ Len(log) = 2
    /\ \E amount \in {100, 300} :
           Execute("burn", "bob", NoAddress, amount,
                   burn(Storage, "bob", amount), Void)

LifecycleGetBalanceCall ==
    /\ last.op # "deploy"
    /\ \E caller \in LifecycleCallers, address \in LifecyclePrincipal :
           Execute("getBalance", caller, address, 0,
                   Storage, get_balance(Storage, address))

LifecycleGetTotalSupplyCall ==
    /\ last.op # "deploy"
    /\ \E caller \in LifecycleCallers :
           Execute("getTotalSupply", caller, NoAddress, 0,
                   Storage, get_total_supply(Storage))

LifecycleNext ==
    \/ LifecycleInitCall
    \/ LifecycleTransferCall
    \/ LifecycleMintCall
    \/ LifecycleBurnCall
    \/ LifecycleGetBalanceCall
    \/ LifecycleGetTotalSupplyCall

SpecLifecycle == LifecycleInit /\ [][LifecycleNext]_vars

\* ================================================================ claims
RECURSIVE SumOver(_, _)
SumOver(f, S) ==
    IF S = {} THEN 0
    ELSE LET p == CHOOSE x \in S : TRUE IN f[p] + SumOver(f, S \ {p})

\* the sum of all account balances
SumBalances(b) == SumOver(b, Principal)

\* C1: in every reachable state, Total Supply equals the sum of all account
\* balances (init may be called at any position, any number of times).
C1_Conservation == totalSupply = SumBalances(balance)

\* C2: a transfer, mint or burn call that aborts, for whatever reason, leaves
\* every balance, Total Supply, Owner and the notification log as they were.
C2_AbortLeavesState ==
    [][(last'.op \in {"transfer", "mint", "burn"} /\ last'.err # OK)
         => UNCHANGED <<balance, totalSupply, owner, log>>]_vars

\* C2 witness: a burn has aborted in the supply subtraction, that is after it
\* had already written the caller's balance.
C2_Witness == last.op = "burn" /\ last.err = ErrSubNegative

\* C3: mint by a caller other than Owner aborts with the owner error for
\* every choice of arguments and changes no balance, supply or notification.
C3_MintNotOwner ==
    [][(last'.op = "mint" /\ last'.caller # owner)
         => /\ last'.err = ErrOwner
            /\ UNCHANGED <<balance, totalSupply, log>>]_vars

\* C3 witness: a non-owner has called mint with the zero recipient and a
\* zero amount and was told it is not the owner.
C3_Witness ==
    /\ last.op = "mint" /\ last.caller # owner
    /\ last.to = ZeroPrincipal /\ last.amount = 0
    /\ last.err = ErrOwner

\* a step that creates supply: Total Supply or the sum of balances grows
CreatesSupply ==
    \/ totalSupply' > totalSupply
    \/ SumBalances(balance') > SumBalances(balance)

\* C4 as stated: every step that increases Total Supply, or the sum of the
\* balances, is a step whose caller is Owner.
C4_OnlyOwnerCreatesSupply ==
    [][CreatesSupply => last'.caller = owner]_vars

\* C4 amended: every step that increases Total Supply, or the sum of the
\* balances, is an init call (by any caller) or a mint call by Owner.
C4_SupplyCreatedByInitOrOwnerMint ==
    [][CreatesSupply
         => \/ last'.op = "init"
            \/ last'.op = "mint" /\ last'.caller = owner]_vars

\* C4 witness: Owner has minted, and the minted amount is in the supply.
C4_Witness ==
    /\ last.op = "mint" /\ last.err = OK /\ last.caller = owner
    /\ totalSupply >= last.amount /\ last.amount > 0
    /\ Len(log) > 0 /\ log[Len(log)].kind = "mint"

\* C5 as stated: no balance is ever negative, and every transfer or burn
\* whose amount exceeds the caller's balance aborts with the insufficient
\* balance error and changes nothing.
C5_NonNegativeInsufficient ==
    /\ [](\A p \in Principal : balance[p] >= 0)
    /\ [][(last'.op \in {"transfer", "burn"}
            /\ last'.amount > balance[last'.caller])
           => /\ last'.err = ErrBalance
              /\ UNCHANGED <<balance, totalSupply, owner, log>>]_vars

\* C5 amended: no balance is ever negative; a burn, or a transfer to a
\* recipient other than the zero principal, whose amount exceeds the caller's
\* balance aborts with the insufficient balance error; a transfer to the zero
\* principal aborts with the recipient error; all of them change nothing.
C5_NonNegativeInsufficientNonZero ==
    /\ [](\A p \in Principal : balance[p] >= 0)
    /\ [][(last'.op \in {"transfer", "burn"}
            /\ last'.amount > balance[last'.caller])
           => /\ last'.err = IF last'.to = ZeroPrincipal
                               THEN ErrTransferZero ELSE ErrBalance
              /\ UNCHANGED <<balance, totalSupply, owner, log>>]_vars

\* C5 witness: a transfer to a real recipient was refused for insufficient
\* balance.
C5_Witness ==
    /\ last.op = "transfer" /\ last.to # ZeroPrincipal
    /\ last.amount > balance[last.caller]
    /\ last.err = ErrBalance

\* C6: a transfer to a non-zero recipient other than the caller, of a
\* positive amount the caller holds, succeeds; it moves exactly the amount
\* from the caller to the recipient, changes no other balance, nor Total
\* Supply, nor Owner, and appends exactly one Transfer notification.
C6_TransferEffect ==
    [][(/\ last'.op = "transfer"
        /\ last'.to # ZeroPrincipal /\ last'.to # last'.caller
        /\ last'.amount > 0 /\ balance[last'.caller] >= last'.amount)
         => /\ last'.err = OK
            /\ balance' = [balance EXCEPT
                             ![last'.caller] = @ - last'.amount,
                             ![last'.to] = @ + last'.amount]
            /\ totalSupply' = totalSupply
            /\ owner' = owner
            /\ log' = Append(log, [kind |-> "transfer", from |-> last'.caller,
                                   to |-> last'.to, amount |-> last'.amount])]_vars

\* C6 witness: a transfer to another account that already held tokens has
\* succeeded.
C6_Witness ==
    /\ last.op = "transfer" /\ last.err = OK /\ last.to # last.caller
    /\ balance[last.to] > last.amount

\* C7: transfer reports the first violated check in the order recipient,
\* amount, balance.
C7_TransferCheckOrder ==
    [][last'.op = "transfer"
         => /\ last'.to = ZeroPrincipal => last'.err = ErrTransferZero
            /\ (last'.to # ZeroPrincipal /\ last'.amount <= 0)
                 => last'.err = ErrAmount
            /\ (/\ last'.to # ZeroPrincipal /\ last'.amount > 0
                /\ balance[last'.caller] < last'.amount)
                 => last'.err = ErrBalance]_vars

\* C7 witness: a transfer of a zero amount to the zero principal was refused
\* because of its recipient.
C7_Witness ==
    /\ last.op = "transfer" /\ last.to = ZeroPrincipal /\ last.amount = 0
    /\ last.err = ErrTransferZero

\* C8: mint by Owner to a non-zero recipient of a positive amount succeeds,
\* adds exactly the amount to Total Supply and to the recipient's balance,
\* changes no other balance nor Owner, and appends exactly one Mint
\* notification.
C8_MintEffect ==
    [][(/\ last'.op = "mint" /\ last'.caller = owner
        /\ last'.to # ZeroPrincipal /\ last'.amount > 0)
         => /\ last'.err = OK
            /\ balance' = [balance EXCEPT ![last'.to] = @ + last'.amount]
            /\ totalSupply' = totalSupply + last'.amount
            /\ owner' = owner
            /\ log' = Append(log, [kind |-> "mint", to |-> last'.to,
                                   amount |-> last'.amount])]_vars

\* C8 witness: Owner has minted to an account other than itself.
C8_Witness ==
    /\ last.op = "mint" /\ last.err = OK
    /\ last.to # owner /\ balance[last.to] >= last.amount

\* C9: in every reachable state a burn of a positive amount the caller holds
\* succeeds, takes exactly the amount from the caller's balance and from
\* Total Supply, changes no other balance and appends exactly one Burn
\* notification; a burn of zero aborts with the amount error.
C9_BurnEffect ==
    [][last'.op = "burn"
         => /\ (last'.amount > 0 /\ balance[last'.caller] >= last'.amount)
                 => /\ last'.err = OK
                    /\ balance' = [balance EXCEPT
                                     ![last'.caller] = @ - last'.amount]
                    /\ totalSupply' = totalSupply - last'.amount
                    /\ log' = Append(log, [kind |-> "burn",
                                           from |-> last'.caller,
                                           amount |-> last'.amount])
            /\ last'.amount = 0 => last'.err = ErrAmount]_vars

\* C10: init never aborts; it sets the caller's balance and Total Supply to
\* the argument, overwriting the previous values, changes no other balance
\* nor Owner, and appends no notification.
C10_InitEffect ==
    [][last'.op = "init"
         => /\ last'.err = OK
            /\ balance' = [balance EXCEPT ![last'.caller] = last'.amount]
            /\ totalSupply' = last'.amount
            /\ owner' = owner
            /\ log' = log]_vars

\* C10 witness: init was called after an earlier operation had already
\* emitted a notification, and the caller holds exactly the new supply.
C10_Witness ==
    /\ last.op = "init" /\ last.err = OK /\ log # <<>>
    /\ last.amount > 0
    /\ balance[last.caller] = last.amount /\ totalSupply = last.amount

\* C11: getBalance and getTotalSupply change no balance, supply, owner or
\* notification; they return the stored value, which is 0 for an address no
\* call has written (the zero principal, or any address straight after
\* deployment), and two reads in a row of the same thing return the same.
C11_ReadsArePure ==
    [][last'.op \in {"getBalance", "getTotalSupply"}
         => /\ UNCHANGED <<balance, totalSupply, owner, log>>
            /\ last'.err = OK
            /\ last'.op = "getBalance" => last'.ret = balance[last'.to]
            /\ last'.op = "getTotalSupply" => last'.ret = totalSupply
            /\ (last'.op = "getBalance"
                /\ (last'.to = ZeroPrincipal \/ last.op = "deploy"))
                 => last'.ret = 0
            /\ (last.op = last'.op /\ last.to = last'.to)
                 => last'.ret = last.ret]_vars

\* C11 witness: the balance of the never written zero principal was read as 0
\* after supply had been created.
C11_Witness ==
    /\ last.op = "getBalance" /\ last.to = ZeroPrincipal /\ last.ret = 0
    /\ totalSupply > 0

\* C12: no step changes Owner.
C12_OwnerFixed == [][owner' = owner]_vars

\* C12 witness: a principal other than Owner has called init, and it is still
\* not the owner.
C12_Witness ==
    last.op = "init" /\ last.err = OK /\ last.caller # owner

\* a step that changes an account balance or Total Supply
ChangesLedger == balance' # balance \/ totalSupply' # totalSupply

\* the log only grows at its end
LogAppendOnly ==
    /\ Len(log') >= Len(log)
    /\ SubSeq(log', 1, Len(log)) = log

C16_SelfTransfer ==
    [][(/\ last'.op = "transfer" /\ last'.to = last'.caller
        /\ last'.amount > 0 /\ balance[last'.caller] >= last'.amount)
         => /\ last'.err = OK
            /\ balance' = balance
            /\ totalSupply' = totalSupply
            /\ log' = Append(log, [kind |-> "transfer", from |-> last'.caller,
                                   to |-> last'.caller,
                                   amount |-> last'.amount])]_vars

\* C16 witness: a caller has transferred to itself.
C16_Witness ==
    /\ last.op = "transfer" /\ last.err = OK /\ last.to = last.caller
    /\ balance[last.caller] >= last.amount

\* C17: Total Supply is never negative; a burn the caller's balance covers
\* but Total Supply does not aborts, and the caller's balance it had already
\* written is not kept.
C17_SupplyNeverNegative ==
    /\ [](totalSupply >= 0)
    /\ [][(/\ last'.op = "burn" /\ last'.amount > 0
           /\ balance[last'.caller] >= last'.amount
           /\ last'.amount > totalSupply)
          => /\ last'.err # OK
             /\ UNCHANGED <<balance, totalSupply, owner, log>>]_vars

\* C17 witness: a caller holding more than Total Supply has tried to burn
\* more than Total Supply.
C17_Witness ==
    /\ last.op = "burn" /\ last.err # OK
    /\ last.amount > totalSupply
    /\ balance[last.caller] >= last.amount

\* C20: a step lowers no balance but that of its caller.
C20_OnlyCallerDebited ==
    [][\A p \in Principal :
         balance'[p] < balance[p] => p = last'.caller]_vars

\* C20 witness: a caller has burnt part of its balance while another account
\* held tokens.
C20_Witness ==
    /\ last.op = "burn" /\ last.err = OK
    /\ \E p \in Principal : p # last.caller /\ balance[p] > 0

C14_BasicLifecycle ==
    /\ last.op = "init"
         => /\ last.err = OK
            /\ get_balance(Storage, "alice") = 1000
            /\ get_total_supply(Storage) = 1000
    /\ last.op = "transfer" => last.err = OK
    /\ Len(log) = 1
         => /\ get_balance(Storage, "alice") = 700
            /\ get_balance(Storage, "bob") = 300
            /\ get_total_supply(Storage) = 1000
            /\ log = <<[kind |-> "transfer", from |-> "alice",
                        to |-> "bob", amount |-> 300]>>
    /\ last.op = "mint" => last.err = OK
    /\ Len(log) = 2
         => /\ get_balance(Storage, "carol") = 50
            /\ get_total_supply(Storage) = 1050
    /\ (last.op = "burn" /\ last.amount = 300) => last.err = OK
    /\ (Len(log) = 3 /\ log[3].amount = 300)
         => /\ get_balance(Storage, "bob") = 0
            /\ get_total_supply(Storage) = 750

\* C14 witness: bob has burnt his whole balance of 300 at the end of the
\* lifecycle.
C14_Witness ==
    /\ last.op = "burn" /\ last.caller = "bob" /\ last.amount = 300
    /\ last.err = OK
    /\ balance["bob"] = 0 /\ totalSupply = 750

\* C15 as stated: in the lifecycle state in which bob holds 300, burn(100) by
\* bob aborts with the insufficient balance error.
C15_BurnHundredAborts ==
    (last.op = "burn" /\ last.amount = 100) => last.err = ErrBalance

\* C15 amended: in that state burn(100) by bob succeeds; it leaves bob 200
\* and Total Supply 950 and appends one Burn notification of 100 from bob.
C15_BurnHundredSucceeds ==
    (last.op = "burn" /\ last.amount = 100)
      => /\ last.err = OK
         /\ get_balance(Storage, "bob") = 200
         /\ get_total_supply(Storage) = 950
         /\ Len(log) = 3
         /\ log[3] = [kind |-> "burn", from |-> "bob", amount |-> 100]

\* C15 witness: bob, holding 300, has called burn(100).
C15_Witness ==
    /\ last.op = "burn" /\ last.caller = "bob" /\ last.amount = 100
    /\ balance["alice"] = 700 /\ balance["carol"] = 50

====
